---- MODULE Spec2Model ----
(***************************************************************************)
(* Model of the cf-abacus resilience utilities:                            *)
(*   - throttle  (src/lib/utils/throttle/index.js)                         *)
(*   - retry     (src/lib/metering/collector/test/test.js, lines 101-190)  *)
(*   - router    (src/lib/utils/router/index.js)                           *)
(* Each utility has its own specification (SpecThrottle, SpecRetry,        *)
(* SpecRouter); the variables of the other utilities stay at their initial *)
(* values.                                                                 *)
(***************************************************************************)
EXTENDS Integers, Sequences, FiniteSets, TLC

\* ------------------------------------------------------------------------
\* Bounds
\* ------------------------------------------------------------------------
NumCalls == 4
NumMembers == 2
MaxMax == 2
NumInv == 2
MaxRetries == 2
NumReqs == 1
NumNames == 3

\* JavaScript's undefined, among string values
Undef == "undefined"
\* An optional number, boolean or object is <<>> (undefined) or <<v>>
None == <<>>
Some(v) == <<v>>

VARIABLES
    \* throttle
    max,        \* the max argument of throttle(fn, max)
    running,    \* per throttlefn closure: let running
    queue,      \* per throttlefn closure: let queue
    ticks,      \* process.nextTick queue of () => run(next) closures
    stack,      \* calls whose intercepting callback is executing cb (JS call stack)
    st,         \* position of each call
    member,     \* the collection member each call was made on
    wasQueued,  \* calls that run() queued when they were submitted
    fnArgs,     \* per call: the sequence of argument lists fn was invoked with
    order,      \* calls in the order fn was invoked for them
    cbCount,    \* per call: how many times the caller's cb was called
    fnGave,     \* latest completion: <<call, err, val>> fn passed to the intercepting callback
    cbGot,      \* latest completion: <<call, err, val>> the caller's cb received
    ret         \* latest call of the throttled function: <<what it returned, what fn returns>>

tvars == <<max, running, queue, ticks, stack, st, member, wasQueued,
           fnArgs, order, cbCount, fnGave, cbGot, ret>>

VARIABLES
    \* retry
    opt,        \* retryfn: const opt = options(retries, min, max, factor, random)
    given,      \* the retries argument retry was called with (may be undefined)
    rpos,       \* position of each invocation of the wrapper
    rattempts,  \* per invocation: number of times fn was called (op._attempts)
    rerrors,    \* per invocation: op.errors(), the errors recorded by op.retry
    rtimeouts,  \* per invocation: the operation's remaining backoff delays
    rtimer,     \* per invocation: delay of the pending setTimeout, if any
    relapsed,   \* per invocation: time passed since the pending setTimeout was set
    rdelays,    \* per invocation: the delays scheduled so far, in order
    rlast,      \* per invocation: (err, val) of the latest callback of fn
    rcb         \* per invocation: the (err, val) pairs passed to the caller's cb

rvars == <<opt, given, rpos, rattempts, rerrors, rtimeouts, rtimer, relapsed, rdelays,
          rlast, rcb>>

VARIABLES
    \* router
    trusted,    \* the trusted argument of router(trusted)
    qpos,       \* position of each request in the middleware stack
    errs,       \* per request: the error objects raised: status, statusCode, bailout
    qnext,      \* per request: the calls of next, in order
    resValue,   \* per request: res.value, if set
    reqValue,   \* per request: the value property of the request object, if set
    qform,      \* per request: the form of the handler that takes it
    qcompl      \* per request: how the handler's completion callback was called

qvars == <<trusted, qpos, errs, qnext, resValue, reqValue, qform, qcompl>>

VARIABLES
    \* throttle and retry applied to a module
    coll,       \* the object passed as fn: its own properties, by name
    wrapped     \* <<policy, object returned by throttle or retry>>, once applied

avars == <<coll, wrapped>>

vars == <<tvars, rvars, qvars, avars>>

\* ------------------------------------------------------------------------
\* Throttle
\* ------------------------------------------------------------------------
Calls == 1..NumCalls
Members == 1..NumMembers
\* The positional arguments call c is submitted with: every call has its own
ArgsOf(c) == <<"args", c>>
Outcomes == {<<"e1", Undef>>, <<Undef, "v1">>}

\* throttle(fn, max) over a module calls throttlefn once per function member:
\* every member gets its own closure (its own running and queue)
InstanceShared(m) == 1
Instance(m) == m

\* run: "if(running === max)"
ShouldQueueBelowMax(i) == running[i] >= max - 1
ShouldQueueNever(i) == running[i] > max
ShouldQueue(i) == running[i] = max

\* The arguments fn.apply receives, without the intercepting callback
InitialArgs(callargs) == callargs

\* What the intercepting callback passes to the application callback
ForwardSwallowErr(err, val) == <<Undef, val>>
Forward(err, val) == <<err, val>>

\* What run returns, lines 31 and 37: the new length of the queue from
\* queue.push, or what fn.apply returns (rv)
RunReturns(i, rv) == IF ShouldQueue(i) THEN Some(Len(queue[i]) + 1) ELSE rv

\* What fn returns synchronously: a function that reports through its
\* callback returns undefined
FnRetVals == {None}

\* The completed call gives up its slot when the application callback has
\* returned: running = running - 1 (line 43) follows cb(err, val) (line 40)
ReleasesAtCallback(p) == p = "callback"
ReleasesAt(p) == p = "return"

\* run(callargs), lines 26-37: queue the call or start it
Run(c, a, m) ==
    LET i == Instance(m) IN
    IF ShouldQueue(i)
    THEN /\ queue' = [queue EXCEPT ![i] = Append(@, c)]
         /\ st' = [st EXCEPT ![c] = "queued"]
         /\ UNCHANGED <<running, fnArgs, order>>
    ELSE /\ running' = [running EXCEPT ![i] = @ + 1]
         /\ st' = [st EXCEPT ![c] = "running"]
         /\ fnArgs' = [fnArgs EXCEPT ![c] = Append(@, InitialArgs(a))]
         /\ order' = Append(order, c)
         /\ UNCHANGED queue

\* The throttled function is called: function() { return run(arguments); }
\* Calls are numbered in submission order and members in the order of their
\* first call.
Submit(c, m, rv) ==
    /\ st[c] = "new"
    /\ \A d \in Calls : d < c => st[d] # "new"
    /\ m = 1 \/ \E d \in Calls : d < c /\ member[d] >= m - 1
    /\ member' = [member EXCEPT ![c] = m]
    /\ wasQueued' = IF ShouldQueue(Instance(m)) THEN wasQueued \cup {c} ELSE wasQueued
    /\ Run(c, ArgsOf(c), m)
    /\ ret' = <<RunReturns(Instance(m), rv), rv>>
    /\ UNCHANGED <<max, ticks, stack, cbCount, fnGave, cbGot>>
    /\ UNCHANGED <<rvars, qvars, avars>>

\* fn calls the intercepting callback with (err, val); the callback calls the
\* application callback cb(err, val), line 40. cb runs until Return.
CallBack(c, err, val) ==
    /\ st[c] = "running"
    /\ st' = [st EXCEPT ![c] = "incb"]
    /\ stack' = <<c>> \o stack
    /\ cbCount' = [cbCount EXCEPT ![c] = @ + 1]
    /\ fnGave' = <<c, err, val>>
    /\ cbGot' = <<c>> \o Forward(err, val)
    /\ running' = IF ReleasesAt("callback")
                  THEN [running EXCEPT ![Instance(member[c])] = @ - 1]
                  ELSE running
    /\ UNCHANGED <<max, queue, ticks, member, wasQueued, fnArgs, order, ret>>
    /\ UNCHANGED <<rvars, qvars, avars>>

\* if(queue.length), line 44
HasQueuedMoreThanOne(i) == Len(queue[i]) > 1
HasQueued(i) == Len(queue[i]) > 0

\* cb returns; lines 43-48: decrement running, dequeue the oldest queued call
\* and schedule it with process.nextTick
Return(c) ==
    /\ stack # <<>>
    /\ Head(stack) = c
    /\ stack' = Tail(stack)
    /\ LET i == Instance(member[c]) IN
        /\ running' = IF ReleasesAt("return") THEN [running EXCEPT ![i] = @ - 1] ELSE running
        /\ IF HasQueued(i)
           THEN LET next == Head(queue[i]) IN
                /\ queue' = [queue EXCEPT ![i] = Tail(@)]
                /\ ticks' = Append(ticks, next)
                /\ st' = [st EXCEPT ![c] = "done", ![next] = "deferred"]
           ELSE /\ st' = [st EXCEPT ![c] = "done"]
                /\ UNCHANGED <<queue, ticks>>
    /\ UNCHANGED <<max, member, wasQueued, fnArgs, order, cbCount, fnGave, cbGot, ret>>
    /\ UNCHANGED <<rvars, qvars, avars>>

\* process.nextTick, line 47: the closure runs once the current operation
\* has run to completion, so not while a completion callback is on the stack
DeferredTurnSynchronous == TRUE
DeferredTurn == stack = <<>>

\* The event loop runs the oldest process.nextTick closure: run(next), line 47
Tick ==
    /\ DeferredTurn
    /\ ticks # <<>>
    /\ LET c == Head(ticks) IN
        /\ ticks' = Tail(ticks)
        /\ Run(c, ArgsOf(c), member[c])
    /\ UNCHANGED <<max, stack, member, wasQueued, cbCount, fnGave, cbGot, ret>>
    /\ UNCHANGED <<rvars, qvars, avars>>

InitThrottle ==
    /\ max \in 1..MaxMax
    /\ running = [i \in Members |-> 0]
    /\ queue = [i \in Members |-> <<>>]
    /\ ticks = <<>>
    /\ stack = <<>>
    /\ st = [c \in Calls |-> "new"]
    /\ member = [c \in Calls |-> 1]
    /\ wasQueued = {}
    /\ fnArgs = [c \in Calls |-> <<>>]
    /\ order = <<>>
    /\ cbCount = [c \in Calls |-> 0]
    /\ fnGave = <<>>
    /\ cbGot = <<>>
    /\ ret = <<>>

NextThrottle ==
    \/ \E c \in Calls, m \in Members, rv \in FnRetVals : Submit(c, m, rv)
    \/ \E c \in Calls, o \in Outcomes : CallBack(c, o[1], o[2])
    \/ \E c \in Calls : Return(c)
    \/ Tick


\* ------------------------------------------------------------------------
\* Retry
\* ------------------------------------------------------------------------
\* The wrapper drives an operation of the retry package (_retry.operation,
\* op.attempt, op.retry, op.errors); the package is modelled at these call
\* sites: one backoff delay per retry, computed up front and sorted; op.retry
\* records the error and schedules the next attempt while a delay is left.
Invs == 1..NumInv
RandomVals == {0, 1}            \* Math.random() in halves: 0 or 0.5
ValVals == {Undef, "v1"}

\* The error object attempt k (0-based) of invocation i fails with
ErrorOf(i, k) == Some(<<i, k>>)

\* options: const def = function(v, d) { return v === undefined ? d : v; }
Def(v, d) == IF v = None THEN d ELSE v[1]

\* options(retries, min, max, factor, random)
Options(retries, min, maxd, factor, random) ==
    [retries |-> Def(retries, 5), minTimeout |-> Def(min, 50),
     maxTimeout |-> Def(maxd, 500), factor |-> Def(factor, 2),
     randomize |-> Def(random, TRUE)]

RECURSIVE Pow(_, _)
Pow(b, e) == IF e = 0 THEN 1 ELSE b * Pow(b, e - 1)

Min(a, b) == IF a < b THEN a ELSE b

\* One backoff delay of the retry operation: Math.min(Math.round(random *
\* minTimeout * Math.pow(factor, attempt)), maxTimeout), where random is
\* Math.random() + 1 if randomize and 1 otherwise; rnd counts halves
CreateTimeoutUncapped(attempt, o, rnd) ==
    ((IF o.randomize THEN 2 + rnd ELSE 2) * o.minTimeout * Pow(o.factor, attempt) + 1) \div 2
CreateTimeout(attempt, o, rnd) ==
    LET twice == (IF o.randomize THEN 2 + rnd ELSE 2) * o.minTimeout * Pow(o.factor, attempt)
    IN Min((twice + 1) \div 2, o.maxTimeout)

RECURSIVE Insert(_, _)
Insert(x, s) ==
    IF s = <<>> THEN <<x>>
    ELSE IF x <= Head(s) THEN <<x>> \o s
    ELSE <<Head(s)>> \o Insert(x, Tail(s))

RECURSIVE SortAsc(_)
SortAsc(s) == IF s = <<>> THEN <<>> ELSE Insert(Head(s), SortAsc(Tail(s)))

\* _retry.operation(opt): one delay per retry, sorted ascending; rnds are the
\* Math.random() draws
Timeouts(o, rnds) ==
    SortAsc([k \in 1..o.retries |-> CreateTimeout(k - 1, o, rnds[k])])

\* The random draws an operation makes
Draws(o) == IF o.randomize THEN [1..o.retries -> RandomVals] ELSE [1..o.retries -> {0}]

\* op.retry(err): false without an error; otherwise records the error and
\* answers whether a delay is left to schedule the next attempt with
RetryOneLess(i, err) == err # None /\ Len(rtimeouts[i]) > 1
RetryWithoutError(i, err) == rtimeouts[i] # <<>>
Retry(i, err) == err # None /\ rtimeouts[i] # <<>>

\* The error the wrapper calls back with: err ? op.errors()[0] : undefined
CallbackErrLast(err, errors) == err
CallbackErrKept(err, errors) == IF errors # <<>> THEN errors[1] ELSE None
CallbackErrSuppressed(err, errors) == None
CallbackErr(err, errors) == IF err # None THEN errors[1] ELSE None

\* const op = _retry.operation(opt), line 148, inside the wrapper: every
\* invocation has an operation of its own, with its attempt count and errors
OperationShared(i) == 1
Operation(i) == i

\* wrapper(args..., cb): creates the retry operation; op.attempt calls fn
Invoke(i) ==
    /\ rpos[i] = "idle"
    /\ \A j \in Invs : j < i => rpos[j] # "idle"
    /\ \E rnds \in Draws(opt) :
          rtimeouts' = [rtimeouts EXCEPT ![i] = Timeouts(opt, rnds)]
    /\ rattempts' = [rattempts EXCEPT ![Operation(i)] = 1]
    /\ rpos' = [rpos EXCEPT ![i] = "attempt"]
    /\ UNCHANGED <<opt, given, rerrors, rtimer, relapsed, rdelays, rlast, rcb>>
    /\ UNCHANGED <<tvars, qvars, avars>>

\* fn calls the intercepting callback with (err, val), lines 156-168
FnCallback(i, fails, val) ==
    /\ rpos[i] = "attempt"
    /\ LET op == Operation(i)
           err == IF fails THEN ErrorOf(i, rattempts[op] - 1) ELSE None
           errors == IF err # None THEN Append(rerrors[op], err) ELSE rerrors[op]
       IN
        /\ rlast' = [rlast EXCEPT ![i] = <<err, val>>]
        /\ rerrors' = [rerrors EXCEPT ![op] = errors]
        /\ IF Retry(i, err)
           THEN /\ rtimer' = [rtimer EXCEPT ![i] = Some(Head(rtimeouts[i]))]
                /\ rdelays' = [rdelays EXCEPT ![i] = Append(@, Head(rtimeouts[i]))]
                /\ rtimeouts' = [rtimeouts EXCEPT ![i] = Tail(@)]
                /\ rpos' = [rpos EXCEPT ![i] = "timer"]
                /\ UNCHANGED rcb
           ELSE /\ rcb' = [rcb EXCEPT ![i] = Append(@, <<CallbackErr(err, errors), val>>)]
                /\ rpos' = [rpos EXCEPT ![i] = "done"]
                /\ UNCHANGED <<rtimer, rdelays, rtimeouts>>
    /\ UNCHANGED <<opt, given, rattempts, relapsed>>
    /\ UNCHANGED <<tvars, qvars, avars>>

\* Time passes while the timer of invocation i is pending: the time since
\* it was set grows to e (counted up to the delay)
Elapse(i, e) ==
    /\ rpos[i] = "timer"
    /\ e \in {rtimer[i][1] \div 2, rtimer[i][1]}
    /\ e > relapsed[i]
    /\ relapsed' = [relapsed EXCEPT ![i] = e]
    /\ UNCHANGED <<opt, given, rpos, rattempts, rerrors, rtimeouts, rtimer, rdelays, rlast, rcb>>
    /\ UNCHANGED <<tvars, qvars, avars>>

\* setTimeout(fn, delay): the timer fires once the delay has passed
TimerDue(i) == relapsed[i] >= rtimer[i][1]

\* The backoff timer of the operation fires: the next attempt calls fn
TimerFires(i) ==
    /\ rpos[i] = "timer"
    /\ TimerDue(i)
    /\ rtimer' = [rtimer EXCEPT ![i] = None]
    /\ relapsed' = [relapsed EXCEPT ![i] = 0]
    /\ rattempts' = [rattempts EXCEPT ![Operation(i)] = @ + 1]
    /\ rpos' = [rpos EXCEPT ![i] = "attempt"]
    /\ UNCHANGED <<opt, given, rerrors, rtimeouts, rdelays, rlast, rcb>>
    /\ UNCHANGED <<tvars, qvars, avars>>

RetriesVals == {None} \cup {Some(r) : r \in 0..MaxRetries}
MinVals == {None, Some(1)}
MaxVals == {None, Some(120)}
FactorVals == {None, Some(3)}
RandomizeVals == {None, Some(FALSE)}

InitRetry ==
    /\ given \in RetriesVals
    /\ \E min \in MinVals, maxd \in MaxVals, factor \in FactorVals, random \in RandomizeVals :
          opt = Options(given, min, maxd, factor, random)
    /\ rpos = [i \in Invs |-> "idle"]
    /\ rattempts = [i \in Invs |-> 0]
    /\ rerrors = [i \in Invs |-> <<>>]
    /\ rtimeouts = [i \in Invs |-> <<>>]
    /\ rtimer = [i \in Invs |-> None]
    /\ relapsed = [i \in Invs |-> 0]
    /\ rdelays = [i \in Invs |-> <<>>]
    /\ rlast = [i \in Invs |-> <<>>]
    /\ rcb = [i \in Invs |-> <<>>]

\* One invocation of the wrapper, under every configuration
NextRetry ==
    \/ Invoke(1)
    \/ \E fails \in BOOLEAN, val \in ValVals : FnCallback(1, fails, val)
    \/ \E e \in 1..opt.maxTimeout : Elapse(1, e)
    \/ TimerFires(1)

\* Several invocations of the wrapper, their attempts and timers interleaved
NextRetryMany ==
    \/ \E i \in Invs : Invoke(i)
    \/ \E i \in Invs, fails \in BOOLEAN, val \in ValVals : FnCallback(i, fails, val)
    \/ \E i \in Invs, e \in 1..opt.maxTimeout : Elapse(i, e)
    \/ \E i \in Invs : TimerFires(i)

\* ------------------------------------------------------------------------
\* Router
\* ------------------------------------------------------------------------
Reqs == 1..NumReqs
\* err.status and err.statusCode: absent, or an HTTP status code (non-zero, so
\* the truthiness tests of the router see it as present)
StatusVals == {None, Some(404)}
StatusCodeVals == {None, Some(500)}
HandlerVals == {Undef, "v1"}

\* The two forms of middleware, by their arguments: function(req, res, next)
\* and function(err, req, res, next)
Forms == {"middleware", "errorMiddleware"}
Arguments(form) ==
    IF form = "middleware" THEN <<"req", "res", "next">> ELSE <<"err", "req", "res", "next">>

\* const res = arguments[1] (0-based): the object the value is stored on
ResArgument(form) == Arguments(form)[2]

\* A new error object, as the handler raises it
NewError(status, statusCode) == [status |-> status, statusCode |-> statusCode, bailout |-> FALSE]

\* callbackify.error: if(!trusted && !err.status && !err.statusCode)
ErrorBailoutNoCode(err) == ~trusted /\ err.status = None
ErrorBailout(err) == ~trusted /\ err.status = None /\ err.statusCode = None

\* catchall, domain error handler: if(!trusted && !err.status && !err.statusCode)
DomainBailout(err) == ~trusted /\ err.status = None /\ err.statusCode = None

\* A call of next with the error object e raised for cause; next() has no error
NextErr(e, cause) == [err |-> Some(e), raised |-> Some(e), cause |-> cause]
NextOk == [err |-> None, raised |-> None, cause |-> "ok"]

\* callbackify.error(err, type): mark the error, then next(err). The error
\* object is the last one of es, the errors of the request.
ErrorPath(es, cause) ==
    LET e == Len(es) IN
    [errs |-> IF ErrorBailout(es[e]) THEN [es EXCEPT ![e].bailout = TRUE] ELSE es,
     call |-> NextErr(e, cause)]

\* The middleware runs to completion in its turn of the event loop: another
\* request is taken up, or an event of another request delivered, only when
\* no middleware call is on the stack
TurnOver == \A q \in Reqs : qpos[q] \notin {"sync", "called"}

\* catchall: the request enters the router, a domain is created and the
\* middleware stack runs in it up to the adapted handler, which calls mfunc
Enter(r) ==
    /\ TurnOver
    /\ qpos[r] = "new"
    /\ qpos' = [qpos EXCEPT ![r] = "sync"]
    /\ UNCHANGED <<trusted, errs, qnext, resValue, reqValue, qform, qcompl>>
    /\ UNCHANGED <<tvars, rvars, avars>>

\* mfunc throws before it returns: catch(exc) { error(exc, 'exception'); }
HandlerThrows(r, status, statusCode) ==
    /\ qpos[r] \in {"sync", "called"}
    /\ LET p == ErrorPath(Append(errs[r], NewError(status, statusCode)), "exception") IN
        /\ errs' = [errs EXCEPT ![r] = p.errs]
        /\ qnext' = [qnext EXCEPT ![r] = Append(@, p.call)]
    /\ qpos' = [qpos EXCEPT ![r] = "ended"]
    /\ UNCHANGED <<trusted, resValue, reqValue, qform, qcompl>>
    /\ UNCHANGED <<tvars, rvars, avars>>

\* What the completion callback does when it gets neither an error nor a
\* value: neither branch of "if(err) ... else if(value) ..." runs
NoValueCalls == <<>>

\* The handler's completion callback, lines 46-56, called with an error
\* (fails), or with no error and a value that may be undefined. Returns the
\* new errs, the calls of next it made and the new res.value.
Completion(r, es, fails, status, statusCode, value) ==
    IF fails
    THEN LET p == ErrorPath(Append(es, NewError(status, statusCode)), "callback") IN
         [errs |-> p.errs, calls |-> <<p.call>>, value |-> resValue[r],
          reqv |-> reqValue[r], kind |-> "error"]
    ELSE IF value # Undef
    THEN [errs |-> es, calls |-> <<NextOk>>,
          value |-> IF ResArgument(qform[r]) = "res" THEN Some(value) ELSE resValue[r],
          reqv |-> IF ResArgument(qform[r]) = "req" THEN Some(value) ELSE reqValue[r],
          kind |-> "value"]
    ELSE [errs |-> es, calls |-> NoValueCalls, value |-> resValue[r],
          reqv |-> reqValue[r], kind |-> "novalue"]

\* mfunc calls the completion callback before it returns, inside the try.
\* If next throws (nextThrows) and mfunc lets the exception through, the catch
\* block takes it: error(exc, 'exception').
CallbackSync(r, fails, status, statusCode, value, nextThrows, xs, xc) ==
    /\ qpos[r] = "sync"
    /\ LET c == Completion(r, errs[r], fails, status, statusCode, value) IN
        IF nextThrows /\ c.calls # <<>>
        THEN LET p == ErrorPath(Append(c.errs, NewError(xs, xc)), "exception") IN
             /\ errs' = [errs EXCEPT ![r] = p.errs]
             /\ qnext' = [qnext EXCEPT ![r] = @ \o c.calls \o <<p.call>>]
             /\ resValue' = [resValue EXCEPT ![r] = c.value]
             /\ reqValue' = [reqValue EXCEPT ![r] = c.reqv]
             /\ qcompl' = [qcompl EXCEPT ![r] = c.kind]
             /\ qpos' = [qpos EXCEPT ![r] = "ended"]
        ELSE /\ errs' = [errs EXCEPT ![r] = c.errs]
             /\ qnext' = [qnext EXCEPT ![r] = @ \o c.calls]
             /\ resValue' = [resValue EXCEPT ![r] = c.value]
             /\ reqValue' = [reqValue EXCEPT ![r] = c.reqv]
             /\ qcompl' = [qcompl EXCEPT ![r] = c.kind]
             /\ qpos' = [qpos EXCEPT ![r] = "called"]
    /\ UNCHANGED <<trusted, qform>>
    /\ UNCHANGED <<tvars, rvars, avars>>

\* mfunc returns without an exception
HandlerReturns(r) ==
    /\ qpos[r] \in {"sync", "called"}
    /\ qpos' = [qpos EXCEPT ![r] = IF qpos[r] = "sync" THEN "async" ELSE "ended"]
    /\ UNCHANGED <<trusted, errs, qnext, resValue, reqValue, qform, qcompl>>
    /\ UNCHANGED <<tvars, rvars, avars>>

\* The completion callback is called in a later turn, inside the domain
CallbackAsync(r, fails, status, statusCode, value) ==
    /\ TurnOver
    /\ qpos[r] = "async"
    /\ LET c == Completion(r, errs[r], fails, status, statusCode, value) IN
        /\ errs' = [errs EXCEPT ![r] = c.errs]
        /\ qnext' = [qnext EXCEPT ![r] = @ \o c.calls]
        /\ resValue' = [resValue EXCEPT ![r] = c.value]
        /\ reqValue' = [reqValue EXCEPT ![r] = c.reqv]
        /\ qcompl' = [qcompl EXCEPT ![r] = c.kind]
    /\ qpos' = [qpos EXCEPT ![r] = "ended"]
    /\ UNCHANGED <<trusted, qform>>
    /\ UNCHANGED <<tvars, rvars, avars>>

\* An exception not caught in an asynchronous callback of the handler reaches
\* the domain: d.on('error', ...), lines 98-108
DomainError(r, status, statusCode) ==
    /\ TurnOver
    /\ qpos[r] = "async"
    /\ LET es == Append(errs[r], NewError(status, statusCode))
           e == Len(es) IN
        /\ errs' = [errs EXCEPT ![r] = IF DomainBailout(es[e]) THEN [es EXCEPT ![e].bailout = TRUE] ELSE es]
        /\ qnext' = [qnext EXCEPT ![r] = Append(@, NextErr(e, "domain"))]
    /\ qpos' = [qpos EXCEPT ![r] = "ended"]
    /\ UNCHANGED <<trusted, resValue, reqValue, qform, qcompl>>
    /\ UNCHANGED <<tvars, rvars, avars>>

InitRouter ==
    /\ trusted \in BOOLEAN
    /\ qpos = [r \in Reqs |-> "new"]
    /\ errs = [r \in Reqs |-> <<>>]
    /\ qnext = [r \in Reqs |-> <<>>]
    /\ resValue = [r \in Reqs |-> None]
    /\ reqValue = [r \in Reqs |-> None]
    /\ qform \in [Reqs -> Forms]
    /\ qcompl = [r \in Reqs |-> "none"]

NextRouter ==
    \/ \E r \in Reqs : Enter(r)
    \/ \E r \in Reqs, s \in StatusVals, sc \in StatusCodeVals : HandlerThrows(r, s, sc)
    \/ \E r \in Reqs, fails \in BOOLEAN, s \in StatusVals, sc \in StatusCodeVals,
          v \in HandlerVals, nextThrows \in BOOLEAN, xs \in StatusVals, xc \in StatusCodeVals :
          CallbackSync(r, fails, s, sc, v, nextThrows, xs, xc)
    \/ \E r \in Reqs : HandlerReturns(r)
    \/ \E r \in Reqs, fails \in BOOLEAN, s \in StatusVals, sc \in StatusCodeVals,
          v \in HandlerVals : CallbackAsync(r, fails, s, sc, v)
    \/ \E r \in Reqs, s \in StatusVals, sc \in StatusCodeVals : DomainError(r, s, sc)


\* ------------------------------------------------------------------------
\* throttle and retry applied to a module
\* ------------------------------------------------------------------------
\* An object is a function from the names of its properties to their values.
\* A value is a function (kind "fn") or not (kind "val"); id tells values of a
\* kind apart, this is what a function is bound to and by the wrapper put
\* around it.
Names == 1..NumNames
Value(kind, id) == [kind |-> kind, id |-> id, this |-> "unbound", by |-> "none"]
PropertyVals == {Value("fn", 1), Value("val", 1), Value("val", 2)}
Objects == UNION {[D -> PropertyVals] : D \in SUBSET Names}

isFunction(v) == v.kind = "fn"

\* _.pairs(o): the [name, value] pairs of the properties of o
pairs(o) == {<<k, o[k]>> : k \in DOMAIN o}

\* _.functions(o): the names of the properties of o that are functions
functionsOfNone(o) == {}
functions(o) == {k \in DOMAIN o : isFunction(o[k])}

\* _.object(list): the object made of a list of [name, value] pairs
object(list) ==
    [k \in {p[1] : p \in list} |-> (CHOOSE p \in list : p[1] = k)[2]]

\* _.extend(a, b): a with the properties of b copied over it
extend(a, b) ==
    [k \in DOMAIN a \cup DOMAIN b |-> IF k \in DOMAIN b THEN b[k] ELSE a[k]]

\* nbind(o, k): o[k] bound to o
nbind(o, k) == [o[k] EXCEPT !.this = "o"]

\* throttlefn(f, max) and retryfn(f, ...): the wrapper around f
throttlefn(f) == [f EXCEPT !.by = "throttle"]
retryfn(f) == [f EXCEPT !.by = "retry"]

\* throttle(fn, max) for an object fn that is not itself a function
throttle(fn) ==
    extend(extend(<<>>, object(pairs(fn))),
           object({<<k, throttlefn(nbind(fn, k))>> : k \in functions(fn)}))

\* retry(fn, retries, min, max, factor, random) for such an object
retry(fn) ==
    extend(extend(<<>>, object(pairs(fn))),
           object({<<k, retryfn(nbind(fn, k))>> : k \in functions(fn)}))

ApplyThrottle ==
    /\ wrapped = <<>>
    /\ wrapped' = <<"throttle", throttle(coll)>>
    /\ UNCHANGED coll
    /\ UNCHANGED <<tvars, rvars, qvars>>

ApplyRetry ==
    /\ wrapped = <<>>
    /\ wrapped' = <<"retry", retry(coll)>>
    /\ UNCHANGED coll
    /\ UNCHANGED <<tvars, rvars, qvars>>

InitAdapter ==
    /\ coll \in Objects
    /\ wrapped = <<>>

NextAdapter ==
    \/ ApplyThrottle
    \/ ApplyRetry

\* ------------------------------------------------------------------------
\* Specifications
\* ------------------------------------------------------------------------
Init == InitThrottle /\ InitRetry /\ InitRouter /\ InitAdapter

\* The default configuration of retry(fn)
DefaultOpt == Options(None, None, None, None, None)

\* Each utility on its own: the other two stay as constructed
InitThrottleOnly == Init /\ given = None /\ opt = DefaultOpt /\ trusted = TRUE
                    /\ qform = [r \in Reqs |-> "middleware"] /\ coll = <<>>
InitRetryOnly == Init /\ max = 1 /\ trusted = TRUE
                 /\ qform = [r \in Reqs |-> "middleware"] /\ coll = <<>>
InitRouterOnly == Init /\ max = 1 /\ given = None /\ opt = DefaultOpt /\ coll = <<>>
InitAdapterOnly == Init /\ max = 1 /\ given = None /\ opt = DefaultOpt /\ trusted = TRUE
                   /\ qform = [r \in Reqs |-> "middleware"]

SpecThrottle == InitThrottleOnly /\ [][NextThrottle]_vars

\* A burst on one throttled function whose calls always succeed: the calls
\* are submitted back to back, before any of them has called back, and none
\* is submitted afterwards
SubmitBurst(c) ==
    /\ \A d \in Calls : cbCount[d] = 0
    /\ Submit(c, 1, None)

NextBurst ==
    \/ \E c \in Calls : SubmitBurst(c)
    \/ \E c \in Calls : CallBack(c, Undef, "v1")
    \/ \E c \in Calls : Return(c)
    \/ Tick

\* Fairness: fn eventually calls back for a call it was invoked for, the
\* caller's callback returns, and the event loop runs the process.nextTick
\* closures
SpecBurst ==
    /\ InitThrottleOnly
    /\ [][NextBurst]_vars
    /\ WF_vars(\E c \in Calls : CallBack(c, Undef, "v1"))
    /\ WF_vars(\E c \in Calls : Return(c))
    /\ WF_vars(Tick)

SpecRetry == InitRetryOnly /\ [][NextRetry]_vars

\* retry(fn, retries, undefined, undefined, undefined, false): a given number
\* of retries, the default delays, no randomization
InitRetryMany == InitRetryOnly /\ given # None
                 /\ opt = Options(given, None, None, None, Some(FALSE))

SpecRetryMany == InitRetryMany /\ [][NextRetryMany]_vars

SpecAdapter == InitAdapterOnly /\ [][NextAdapter]_vars

SpecRouter == InitRouterOnly /\ [][NextRouter]_vars

Next == NextThrottle \/ NextRetry \/ NextRouter \/ NextAdapter

Spec == Init /\ [][Next]_vars

\* ------------------------------------------------------------------------
\* Properties of the throttle (checked under SpecThrottle)
\* ------------------------------------------------------------------------
\* Calls of member m that fn was started for and that have not called back
Outstanding(m) == Cardinality({c \in Calls : member[c] = m /\ st[c] = "running"})

\* Calls of member m that hold a slot: started, the decrement not yet done
Occupying(m) == Cardinality({c \in Calls : member[c] = m /\ st[c] \in {"running", "incb"}})

Started(c) == \E k \in 1..Len(order) : order[k] = c
Pos(c) == CHOOSE k \in 1..Len(order) : order[k] = c

\* C1: for each throttled function, the number of calls of fn that have
\* started and not yet called back never exceeds max, under any interleaving
\* of submissions, completions and deferred starts.
C1_OutstandingAtMostMax ==
    \A m \in Members : Outstanding(m) <= max /\ running[Instance(m)] <= max

C1_Witness ==
    \E m \in Members :
        /\ Outstanding(m) = max
        /\ queue[Instance(m)] # <<>>
        /\ \E c \in wasQueued : member[c] = m /\ st[c] = "running"

\* C2: two calls of one throttled function that were both queued start in
\* submission order: if A was submitted before B, fn is invoked for A before
\* it is invoked for B.
C2_QueuedStartInSubmissionOrder ==
    \A a, b \in wasQueued :
        (a < b /\ member[a] = member[b] /\ Started(b)) => (Started(a) /\ Pos(a) < Pos(b))

\* C3 as stated: the calls running across all members of a throttled
\* collection together never exceed max.
C3_SharedLimit == Cardinality({c \in Calls : st[c] = "running"}) <= max

\* C3 as amended: every callable member is throttled under its own counter
\* and the limit max: the counter of a member counts exactly the calls of that
\* member that hold a slot, these never exceed max, and the calls running
\* across all k members never exceed k * max.
C3_PerMemberLimit ==
    /\ \A m \in Members : running[m] = Occupying(m) /\ Occupying(m) <= max
    /\ Cardinality({c \in Calls : st[c] = "running"}) <= NumMembers * max

C3_Witness ==
    /\ \A m \in Members : Outstanding(m) = max
    /\ Cardinality({c \in Calls : st[c] = "running"}) > max

\* C8: the throttle is a passthrough: for every call, started directly or
\* queued first, fn is invoked at most once, and once the call has started
\* exactly once with the submitted arguments; the caller's callback is called
\* exactly once when fn calls back, with exactly the error and result that fn
\* passed to the intercepting callback.
C8_Passthrough ==
    /\ \A c \in Calls :
        /\ st[c] \in {"new", "queued", "deferred"} => fnArgs[c] = <<>>
        /\ st[c] \in {"running", "incb", "done"} => fnArgs[c] = <<ArgsOf(c)>>
        /\ cbCount[c] = IF st[c] \in {"incb", "done"} THEN 1 ELSE 0
    /\ cbGot = fnGave

C8_Witness ==
    \E c \in wasQueued, d \in Calls \ wasQueued :
        /\ st[c] = "done" /\ st[d] = "done"
        /\ cbGot = <<c, "e1", Undef>>
        /\ fnArgs[c] = <<ArgsOf(c)>>

\* ------------------------------------------------------------------------
\* Properties of retry (checked under SpecRetry)
\* ------------------------------------------------------------------------
\* The retries the wrapper was configured with: the argument, or 5 without one
Retries == IF given = None THEN 5 ELSE given[1]

\* Every attempt of invocation i so far called back with an error
AllFailed(i) == Len(rerrors[i]) = rattempts[i]

\* Invocation i called back after its last permitted attempt failed
Exhausted(i) == rpos[i] = "done" /\ rlast[i][1] # None

\* Invocation i called back after an attempt succeeded
Succeeded(i) == rpos[i] = "done" /\ rlast[i][1] = None

\* C4: with retries = r >= 0 (r = 0 included, not replaced by the default 5),
\* fn is never invoked more than r+1 times per invocation, and an invocation
\* whose attempts all fail has invoked fn exactly r+1 times at its final
\* callback.
C4_AttemptsBounded ==
    \A i \in Invs :
        /\ rattempts[i] <= Retries + 1
        /\ (rpos[i] = "done" /\ AllFailed(i)) => rattempts[i] = Retries + 1

C4_Witness ==
    /\ given = Some(0)
    /\ rpos[1] = "done" /\ AllFailed(1) /\ rattempts[1] = 1 /\ Len(rcb[1]) = 1

\* C5: when the attempts are exhausted, the error passed to the caller's
\* callback is the error of attempt 0, not the error of the last attempt.
C5_FirstErrorReported ==
    \A i \in Invs : Exhausted(i) => (Len(rcb[i]) = 1 /\ rcb[i][1][1] = ErrorOf(i, 0))

C5_Witness ==
    /\ Exhausted(1) /\ rattempts[1] = 3
    /\ rlast[1][1] = ErrorOf(1, 2)
    /\ rcb[1][1][1] = ErrorOf(1, 0)

\* C6: when the attempts are exhausted, the caller's callback receives no
\* result (undefined), even if the last attempt called back with both an
\* error and a value.
C6_NoResultOnExhaustion ==
    \A i \in Invs : Exhausted(i) => (Len(rcb[i]) = 1 /\ rcb[i][1][2] = Undef)

\* C7: when an attempt succeeds, after any number of failed attempts, the
\* caller's callback receives no error and exactly that attempt's result, and
\* no further attempt is made: nothing is scheduled and the state of the
\* invocation no longer changes.
C7_SuccessState ==
    \A i \in Invs : Succeeded(i) =>
        /\ rcb[i] = << <<None, rlast[i][2]>> >>
        /\ rtimer[i] = None
        /\ rattempts[i] = Len(rerrors[i]) + 1

C7_SuccessFinal ==
    \A i \in Invs : Succeeded(i) =>
        /\ rattempts'[i] = rattempts[i]
        /\ rpos'[i] = rpos[i]
        /\ rcb'[i] = rcb[i]

C7_SuccessDiscardsErrors == [](C7_SuccessState) /\ [][C7_SuccessFinal]_vars

C7_Witness ==
    /\ Succeeded(1) /\ rattempts[1] = 3 /\ Len(rerrors[1]) = 2
    /\ rcb[1] = << <<None, "v1">> >>

\* C9: the caller's callback is invoked at most once per invocation, never
\* while an attempt is outstanding or a retry is scheduled, and exactly once
\* when the invocation ends: on the first success, or with an error after the
\* last permitted attempt failed.
C9_ExactlyOneCallback ==
    \A i \in Invs :
        /\ rpos[i] \in {"idle", "attempt", "timer"} => rcb[i] = <<>>
        /\ rpos[i] = "done" => Len(rcb[i]) = 1
        /\ Succeeded(i) => rcb[i][1][1] = None
        /\ Exhausted(i) => (rcb[i][1][1] # None /\ rattempts[i] = opt.retries + 1)

C9_Witness ==
    /\ opt.retries = 2 /\ Exhausted(1)
    /\ Len(rdelays[1]) = 2
    /\ Len(rcb[1]) = 1 /\ rcb[1][1][1] # None

\* ------------------------------------------------------------------------
\* Properties of the router (checked under SpecRouter)
\* ------------------------------------------------------------------------
\* The calls of next of request r that carry an error
ErrorCalls(r) == {qnext[r][k] : k \in 1..Len(qnext[r])} \ {NextOk}

\* C10: for every error delivered to next, by the catch block, the completion
\* callback or the domain: the bailout flag is set iff the router is not
\* trusted and the error has neither a status nor a statusCode; a trusted
\* router never sets it; and next receives the error object that was raised.
C10_BailoutRule ==
    \A r \in Reqs : \A n \in ErrorCalls(r) :
        /\ n.err = n.raised
        /\ n.err[1] \in 1..Len(errs[r])
        /\ LET e == errs[r][n.err[1]] IN
              e.bailout <=> (~trusted /\ e.status = None /\ e.statusCode = None)

C10_Witness ==
    /\ ~trusted
    /\ \E r \in Reqs : \E n, x \in ErrorCalls(r) :
          /\ n.cause = "callback" /\ errs[r][n.err[1]].bailout
          /\ x.cause = "exception" /\ ~errs[r][x.err[1]].bailout
          /\ errs[r][x.err[1]].statusCode # None

\* The positions in the calls of next of request r that pass an error
ErrorPositions(r) == {k \in 1..Len(qnext[r]) : qnext[r][k] # NextOk}

\* C11: for one invocation of an adapted handler, next is called with an
\* error at most once, whatever the combination of an exception thrown by
\* the handler, an error given to its callback and an exception thrown by next
\* inside that callback; and next is never called both without and with an
\* error.
C11_AtMostOneError ==
    \A r \in Reqs :
        /\ Cardinality(ErrorPositions(r)) <= 1
        /\ ~(ErrorPositions(r) # {} /\ \E k \in 1..Len(qnext[r]) : qnext[r][k] = NextOk)

\* C12: when the handler has completed with no error and no value, as plain
\* middleware does by calling next(), the adapted middleware has called the
\* downstream next with no error.
C12_NoValueCallsNext ==
    \A r \in Reqs :
        qcompl[r] = "novalue" => \E k \in 1..Len(qnext[r]) : qnext[r][k] = NextOk

\* C13: when a handler of either form has completed with a value and no
\* error, the value is on the response object and on no other argument, and
\* next has been called exactly once, with no arguments.
C13_ValueOnResponse ==
    \A r \in Reqs :
        qcompl[r] = "value" =>
            /\ resValue[r] # None
            /\ reqValue[r] = None
            /\ qnext[r] = <<NextOk>>

\* fn is invoked for call c in this step
StartsNow(c) == Len(fnArgs'[c]) > Len(fnArgs[c])

\* throttle(fn, 2) called three times on one function, with no other call
ScenarioD ==
    /\ max = 2
    /\ st[3] # "new" /\ st[4] = "new"
    /\ member[1] = member[2] /\ member[2] = member[3]

C14_State ==
    ScenarioD =>
        /\ (cbCount[1] = 0 /\ cbCount[2] = 0) => fnArgs[3] = <<>>
        /\ (st[1] = "done" /\ cbCount[2] = 0) => st[3] \in {"deferred", "running", "incb", "done"}

C14_Step ==
    \A c \in wasQueued :
        StartsNow(c) =>
            /\ stack = <<>>
            /\ ticks # <<>> /\ Head(ticks) = c
            /\ cbCount' = cbCount

\* C14: with max 2 and three calls, fn is not invoked for the third call
\* while neither of the first two has finished; once call 1 has finished the
\* third call is dequeued and started without waiting for call 2; and a
\* call that was queued is only ever started from a deferred turn of the
\* scheduler, never inside a completion callback or in the completion step.
C14_DeferredStart == [](C14_State) /\ [][C14_Step]_vars

C14_Witness ==
    /\ ScenarioD
    /\ st[1] = "done" /\ st[2] = "running" /\ st[3] = "running"
    /\ 3 \in wasQueued

\* Calls of member m whose completion is being forwarded to the caller's cb
InCallback(m) == Cardinality({c \in Calls : member[c] = m /\ st[c] = "incb"})

\* C19 as stated: running is decremented before the result is forwarded, so
\* while the caller's callback executes the completed call no longer holds a
\* slot: the counter counts only the other calls that have not called back.
C19_SlotFreeInCallback ==
    \A c \in Calls :
        st[c] = "incb" => running[Instance(member[c])] = Outstanding(member[c])

C19_State ==
    \A c \in Calls :
        st[c] = "incb" =>
            running[Instance(member[c])] = Outstanding(member[c]) + InCallback(member[c])

C19_Step ==
    /\ \A c \in Calls :
          (st[c] = "incb" /\ st'[c] = "done") =>
              LET i == Instance(member[c]) IN
              /\ cbCount'[c] = cbCount[c]
              /\ running'[i] = running[i] - 1
              /\ queue[i] # <<>> =>
                    /\ queue'[i] = Tail(queue[i])
                    /\ ticks' = Append(ticks, Head(queue[i]))
    /\ \A d \in Calls :
          (st[d] = "new" /\ st'[d] # "new" /\ stack # <<>>) =>
              LET m == member'[d] IN
              st'[d] = "queued" <=> Outstanding(m) + InCallback(m) = max

\* C19 as amended: on completion the error or result is forwarded to the
\* caller's callback first, then running is decremented, then the oldest
\* queued call is dequeued and scheduled. While the caller's callback executes
\* the completed call still holds its slot, and a call submitted from inside
\* that callback is counted against the other running calls and the
\* completing one: it is queued exactly when these together are max.
C19_SlotHeldInCallback == [](C19_State) /\ [][C19_Step]_vars

C19_Witness ==
    \E c \in Calls :
        /\ st[c] = "incb" /\ stack # <<>> /\ Head(stack) = c
        /\ Outstanding(member[c]) = max - 1
        /\ running[Instance(member[c])] = max
        /\ \E d \in wasQueued : d > c /\ st[d] = "queued" /\ member[d] = member[c] /\ ret[1] = Some(1)

\* C20: the caller gets no signal whether its call was queued or started:
\* what the throttled function returns synchronously is the same in a run
\* where running had reached max at call time as in the run where it had
\* not, in which the call returns what fn returns.
C20_ReturnIndistinguishable == ret # <<>> => ret[1] = ret[2]

\* The calls submitted so far
Submitted == {c \in Calls : st[c] # "new"}

C15_State ==
    /\ (\A d \in Calls : cbCount[d] = 0) =>
          /\ Outstanding(1) = Min(Cardinality(Submitted), max)
          /\ \A c \in Submitted : st[c] = (IF c <= max THEN "running" ELSE "queued")
    /\ Outstanding(1) <= max
    /\ \A c \in wasQueued : Started(c) => \E d \in Calls : d < c /\ cbCount[d] = 1
    /\ \A j, k \in 1..Len(order) : j < k => order[j] < order[k]

\* C15: for a burst of N = max + k calls that always succeed, with no later
\* submission: exactly max calls are started at submission time and run
\* concurrently, each of the k queued calls is started only after a running
\* call has finished, the calls start in submission order, and every
\* submitted call eventually calls back.
C15_BurstCompletes ==
    /\ [](C15_State)
    /\ \A c \in Calls : (st[c] # "new") ~> (st[c] = "done" /\ cbCount[c] = 1)

C15_Witness ==
    /\ max = 2
    /\ wasQueued = {3, 4}
    /\ order = <<1, 2, 3, 4>>
    /\ \A c \in 1..4 : st[c] = "done"

\* The backoff delay before attempt k (k >= 1) without randomization
Delay(k) == Min(opt.maxTimeout, opt.minTimeout * Pow(opt.factor, k - 1))

C16_State ==
    ~opt.randomize =>
        \A i \in Invs :
            /\ \A k \in 1..Len(rdelays[i]) :
                  /\ rdelays[i][k] = Delay(k)
                  /\ k > 1 => rdelays[i][k - 1] <= rdelays[i][k]
            /\ rpos[i] = "attempt" => Len(rdelays[i]) = rattempts[i] - 1
            /\ rtimer[i] # None => rtimer[i][1] = Delay(rattempts[i])

C16_Step ==
    ~opt.randomize =>
        \A i \in Invs :
            rattempts'[i] # rattempts[i] =>
                IF rattempts[i] = 0
                THEN rtimer[i] = None /\ rdelays[i] = <<>>
                ELSE /\ rattempts'[i] = rattempts[i] + 1
                     /\ Len(rdelays[i]) = rattempts[i]
                     /\ relapsed[i] >= Delay(rattempts[i])

\* C16: with randomization off, the delay scheduled before attempt k (k >= 1)
\* is min(maxDelay, minDelay * factor^(k-1)); attempt 0 starts with no delay;
\* attempt k does not start before its delay has passed; the delays of an
\* invocation are non-decreasing.
C16_BackoffDelays == [](C16_State) /\ [][C16_Step]_vars

C16_Witness ==
    /\ ~opt.randomize
    /\ rdelays[1] = <<50, 120>>
    /\ rattempts[1] = 3 /\ rpos[1] = "attempt"

\* The callbacks fn has made for invocation i: one per recorded error, and
\* one more if the latest callback carried no error
Finished(i) ==
    Len(rerrors[i]) + (IF rlast[i] # <<>> /\ rlast[i][1] = None THEN 1 ELSE 0)

C18_State ==
    \A i \in Invs :
        /\ rattempts[i] - Finished(i) \in {0, 1}
        /\ rtimer[i] # None => rattempts[i] = Finished(i)
        /\ rattempts[i] >= 2 =>
              /\ Len(rerrors[i]) >= rattempts[i] - 1
              /\ Len(rdelays[i]) >= rattempts[i] - 1

C18_Step ==
    \A i \in Invs :
        (rattempts[i] >= 1 /\ rattempts'[i] # rattempts[i]) =>
            /\ rattempts'[i] = rattempts[i] + 1
            /\ rattempts[i] = Finished(i)
            /\ rlast[i][1] # None
            /\ Len(rerrors[i]) = rattempts[i]
            /\ rtimer[i] # None /\ Len(rdelays[i]) = rattempts[i]

\* C18: the attempts of one invocation are strictly sequential: at most one
\* attempt is outstanding at any time, none while a backoff timer is pending,
\* and attempt k+1 starts only after attempt k has called back with an error
\* and the backoff delay for attempt k+1 has been scheduled.
C18_SequentialAttempts == [](C18_State) /\ [][C18_Step]_vars

C18_Witness ==
    /\ rattempts[1] = 3 /\ rpos[1] = "attempt"
    /\ Len(rerrors[1]) = 2 /\ Len(rdelays[1]) = 2

\* C17: throttle or retry applied to a named collection returns a collection
\* with exactly the same names, in which every callable member is replaced
\* by its wrapped form, which calls the original member bound to the original
\* collection, and every non-callable member is returned unchanged.
C17_MembersWrapped ==
    wrapped # <<>> =>
        LET policy == wrapped[1]
            w == wrapped[2]
        IN  /\ DOMAIN w = DOMAIN coll
            /\ \A k \in DOMAIN coll :
                  IF isFunction(coll[k])
                  THEN /\ isFunction(w[k])
                       /\ w[k].by = policy
                       /\ w[k].id = coll[k].id
                       /\ w[k].this = "o"
                  ELSE w[k] = coll[k]

C17_Witness ==
    /\ wrapped # <<>>
    /\ \E j, k \in DOMAIN coll : isFunction(coll[j]) /\ ~isFunction(coll[k])
    /\ DOMAIN coll # Names

\* C21: when several invocations of one retry-wrapped function interleave,
\* each has its own attempt count and its own ordered error list: it makes
\* at most retries + 1 attempts, records only the errors of its own attempts,
\* in order, and on exhaustion reports the first error of its own attempts.
C21_PerInvocationState ==
    \A i \in Invs :
        /\ rattempts[i] <= Retries + 1
        /\ Len(rerrors[i]) <= rattempts[i]
        /\ \A k \in 1..Len(rerrors[i]) : rerrors[i][k] = ErrorOf(i, k - 1)
        /\ \A k \in 1..Len(rcb[i]) :
              rcb[i][k][1] # None => rcb[i][k][1] = ErrorOf(i, 0)
        /\ Exhausted(i) => rcb[i] # <<>> /\ rcb[i][1][1] = ErrorOf(i, 0)

C21_Witness ==
    /\ Retries >= 1
    /\ Exhausted(2) /\ rcb[2][1][1] = ErrorOf(2, 0) /\ rattempts[2] = Retries + 1
    /\ rpos[1] = "timer" /\ Len(rerrors[1]) >= 1

\* The dequeued calls of throttled function i whose deferred start is pending
PendingStarts(i) ==
    Cardinality({k \in 1..Len(ticks) : Instance(member[ticks[k]]) = i})

\* C22: no queued call is stranded: whenever the queue of a throttled
\* function is non-empty, its running count plus the dequeued calls whose
\* deferred start is pending is at least max, so there is no state with a
\* queued call, a free slot and no pending start; also after a dequeued call
\* found all slots taken at its deferred start and was put back on the queue.
C22_NoStrandedCall ==
    \A m \in Members :
        LET i == Instance(m) IN
        queue[i] # <<>> =>
            /\ running[i] + PendingStarts(i) >= max
            /\ ~(running[i] < max /\ PendingStarts(i) = 0)

\* a dequeued call was put back behind a call submitted after it
C22_Witness ==
    \E m \in Members :
        LET q == queue[Instance(m)] IN
        /\ \E j, k \in 1..Len(q) : j < k /\ q[j] > q[k]
        /\ \A c \in Calls : cbCount[c] <= 1

====
